---- MODULE Spec2Model ----
(***************************************************************************)
(* The workflow execution engine of the Agentic Workflow Builder:          *)
(* WorkflowRunner (backend/services/workflow_runner.py), the model gateway *)
(* (backend/services/unbound_client.py), the run store                     *)
(* (backend/services/supabase_client.py) and the run request handler       *)
(* (backend/routes/workflows.py).                                          *)
(*                                                                         *)
(* A Python str is a sequence of one-character strings, so that slicing,   *)
(* find, replace and the case-insensitive search are computed as the code  *)
(* computes them.  Model identifiers and context-strategy tags are only    *)
(* compared for equality by the code and are kept as atomic strings.       *)
(* datetime.now() of a log entry is left out: nothing reads it.            *)
(***************************************************************************)
EXTENDS Integers, Sequences, FiniteSets, TLC

\* ------------------------------------------------------------------------
\* Bounds of the model
\* ------------------------------------------------------------------------
MaxSteps == 2
MaxFaults == 2

\* ------------------------------------------------------------------------
\* Program constants
\* ------------------------------------------------------------------------
max_retries == 2
SUMMARY_LIMIT == 200
SUMMARY_KEEP == 100
AUTO_LIMIT == 300
AUTO_KEEP == 150
PROMPT_ECHO == 30
JUDGE_KEEP == 100

None == "<None>"
DEFAULT_MODEL == "kimi-k2p5"
SUPPORTED_MODELS == {"kimi-k2p5", "kimi-k2-instruct-0905"}

PLACEHOLDER == <<"{","{","p","r","e","v","i","o","u","s","}","}">>
ELLIPSIS == <<".",".",".">>
BULLET == "bullet"
WHITESPACE == {" ", "\t", "\n", "\r"}

ApiErrorHead == <<"A","P","I"," ","E","r","r","o","r"," ","(">>
ApiErrorMid == <<")",":"," ","F","a","l","l","i","n","g"," ","b","a","c","k"," ","t","o"," ","m","o","c","k"," ","r","e","s","p","o","n","s","e"," ","f","o","r"," ","'">>
TimeoutHead == <<"T","i","m","e","o","u","t"," ","e","r","r","o","r",":"," ","M","o","c","k"," ","r","e","s","p","o","n","s","e"," ","f","o","r"," ","'">>
ConnectionHead == <<"C","o","n","n","e","c","t","i","o","n"," ","e","r","r","o","r",":"," ","M","o","c","k"," ","r","e","s","p","o","n","s","e"," ","f","o","r"," ","'">>
MockTail == <<".",".",".","'">>
ErrorHead == <<"E","r","r","o","r",":"," ">>
ExecErrorHead == <<"E","x","e","c","u","t","i","o","n"," ","e","r","r","o","r",":"," ">>

\* ------------------------------------------------------------------------
\* str operations
\* ------------------------------------------------------------------------
Min(a, b) == IF a <= b THEN a ELSE b

\* s[:n]
Prefix(s, n) == SubSeq(s, 1, Min(n, Len(s)))

\* s[n:] for 0-based n, i.e. the text from position n + 1 on
Suffix(s, n) == SubSeq(s, n + 1, Len(s))

\* c in s, for a character c
HasChar(s, c) == \E i \in 1..Len(s) : s[i] = c

\* s.find(c) for a character c: the first position (1-based), 0 when absent
find(s, c) == IF HasChar(s, c) THEN CHOOSE i \in 1..Len(s) : s[i] = c /\ \A j \in 1..(i - 1) : s[j] # c ELSE 0

\* s.rfind(c) for a character c: the last position (1-based), 0 when absent
rfind(s, c) == IF HasChar(s, c) THEN CHOOSE i \in 1..Len(s) : s[i] = c /\ \A j \in (i + 1)..Len(s) : s[j] # c ELSE 0

\* s.startswith(p) at 1-based position i
MatchAt(s, p, i) == i + Len(p) - 1 <= Len(s) /\ \A k \in 1..Len(p) : s[i + k - 1] = p[k]

\* p in s
Contains(s, p) == \E i \in 1..(Len(s) + 1) : MatchAt(s, p, i)

RECURSIVE ReplaceFrom(_, _, _, _)
ReplaceFrom(s, old, new, i) ==
  IF i > Len(s) THEN <<>>
  ELSE IF MatchAt(s, old, i) THEN new \o ReplaceFrom(s, old, new, i + Len(old))
  ELSE <<s[i]>> \o ReplaceFrom(s, old, new, i + 1)

\* replace that appends the new text when the old one does not occur
replace_AppendWhenAbsent(s, old, new) ==
  IF Contains(s, old) THEN ReplaceFrom(s, old, new, 1) ELSE s \o new

\* s.replace(old, new) for a non-empty old: every occurrence, left to right,
\* the inserted text is not scanned again
replace(s, old, new) == ReplaceFrom(s, old, new, 1)

UPPER == <<"A","B","C","D","E","F","G","H","I","J","K","L","M","N","O","P","Q","R","S","T","U","V","W","X","Y","Z">>
LOWER == <<"a","b","c","d","e","f","g","h","i","j","k","l","m","n","o","p","q","r","s","t","u","v","w","x","y","z">>

LowerChar(c) == IF \E i \in 1..Len(UPPER) : UPPER[i] = c THEN LOWER[CHOOSE i \in 1..Len(UPPER) : UPPER[i] = c] ELSE c

\* s.lower()
lower(s) == [i \in 1..Len(s) |-> LowerChar(s[i])]

RECURSIVE SplitFrom(_, _, _)
SplitFrom(s, i, cur) ==
  IF i > Len(s) THEN <<cur>>
  ELSE IF s[i] = "\n" THEN <<cur>> \o SplitFrom(s, i + 1, <<>>)
  ELSE SplitFrom(s, i + 1, Append(cur, s[i]))

\* s.split("\n")
split(s) == SplitFrom(s, 1, <<>>)

RECURSIVE lstrip(_)
lstrip(s) == IF Len(s) > 0 /\ s[1] \in WHITESPACE THEN lstrip(Tail(s)) ELSE s

\* "\n".join(lines)
RECURSIVE join(_)
join(lines) ==
  IF Len(lines) = 0 THEN <<>>
  ELSE IF Len(lines) = 1 THEN lines[1]
  ELSE lines[1] \o <<"\n">> \o join(Tail(lines))

RECURSIVE SelectLines(_)
SelectLines(lines) ==
  IF Len(lines) = 0 THEN <<>>
  ELSE LET line == lines[1]
           keep == HasChar(line, BULLET) \/ (Len(lstrip(line)) > 0 /\ lstrip(line)[1] = "-")
       IN (IF keep THEN <<line>> ELSE <<>>) \o SelectLines(Tail(lines))

\* ------------------------------------------------------------------------
\* Model gateway (unbound_client.py)
\* ------------------------------------------------------------------------
validate_model(model) ==
  IF model = None \/ model = "" THEN DEFAULT_MODEL
  ELSE IF model \notin SUPPORTED_MODELS THEN DEFAULT_MODEL
  ELSE model

\* What the HTTP exchange of one generate_text call does: status 200 with a
\* content, another status, a timeout, any other exception.
GatewayOk(content) == [kind |-> "ok", text |-> content]
GatewayStatus(code) == [kind |-> "status", text |-> code]
GatewayTimeout == [kind |-> "timeout", text |-> <<>>]
GatewayException == [kind |-> "exception", text |-> <<>>]

\* generate_text never raises: every failure of the exchange becomes a text.
\* The API key is present (main.py refuses to start without it).
generate_text(prompt, model, http) ==
  CASE http.kind = "ok" -> http.text
    [] http.kind = "status" -> ApiErrorHead \o http.text \o ApiErrorMid \o Prefix(prompt, PROMPT_ECHO) \o MockTail
    [] http.kind = "timeout" -> TimeoutHead \o Prefix(prompt, PROMPT_ECHO) \o MockTail
    [] OTHER -> ConnectionHead \o Prefix(prompt, PROMPT_ECHO) \o MockTail

\* ------------------------------------------------------------------------
\* Context injector (workflow_runner.py)
\* ------------------------------------------------------------------------
ExtractContext(previous_output) ==
  IF HasChar(previous_output, "{") /\ HasChar(previous_output, "}")
  THEN SubSeq(previous_output, find(previous_output, "{"), rfind(previous_output, "}"))
  ELSE IF HasChar(previous_output, BULLET) \/ HasChar(previous_output, "-")
  THEN join(SelectLines(split(previous_output)))
  ELSE previous_output

\* ContextOf with 'auto' extracting from a text that looks structured
ContextOf_AutoExtracts(previous_output, strategy) ==
  IF strategy = "summary" /\ Len(previous_output) > SUMMARY_LIMIT
  THEN Prefix(previous_output, SUMMARY_KEEP) \o ELLIPSIS
  ELSE IF strategy = "extract" THEN ExtractContext(previous_output)
  ELSE IF strategy = "auto" /\ Len(previous_output) > AUTO_LIMIT
  THEN Prefix(previous_output, AUTO_KEEP) \o ELLIPSIS
  ELSE IF strategy = "auto" /\ \E c \in {"{", "[", BULLET, "-"} : HasChar(previous_output, c)
  THEN ExtractContext(previous_output)
  ELSE previous_output

\* lines 130-155: the context computed from the previous output
ContextOf(previous_output, strategy) ==
  IF strategy = "summary" /\ Len(previous_output) > SUMMARY_LIMIT
  THEN Prefix(previous_output, SUMMARY_KEEP) \o ELLIPSIS
  ELSE IF strategy = "extract" THEN ExtractContext(previous_output)
  ELSE IF strategy = "auto" /\ Len(previous_output) > AUTO_LIMIT
  THEN Prefix(previous_output, AUTO_KEEP) \o ELLIPSIS
  ELSE previous_output

\* _inject_context substituting the previous output as it is, whatever the strategy
_inject_context_Untransformed(prompt, previous_output, strategy) ==
  IF previous_output = <<>> \/ strategy = None \/ strategy = ""
  THEN prompt
  ELSE replace(prompt, PLACEHOLDER, previous_output)

\* _inject_context without the early return of lines 127-128
_inject_context_NoGuard(prompt, previous_output, strategy) ==
  replace(prompt, PLACEHOLDER, ContextOf(previous_output, strategy))

\* lines 125-158
_inject_context(prompt, previous_output, strategy) ==
  IF previous_output = <<>> \/ strategy = None \/ strategy = ""
  THEN prompt
  ELSE replace(prompt, PLACEHOLDER, ContextOf(previous_output, strategy))

\* ------------------------------------------------------------------------
\* Validator (workflow_runner.py)
\*
\* A completion rule is the stored string seen through json.loads:
\*   form "null"    None or the empty string
\*   form "plain"   text that is no JSON document; text is the whole string
\*   form "object"  a JSON object; type is its "type" ("simple" when absent),
\*                  text its "rule" or "prompt" ("" when absent)
\*   form "scalar"  a JSON document that is no object; text is the message of
\*                  the AttributeError its .get raises
\* The patterns of the rules are made of literal characters, of '.', and of
\* the three malformed openings re.compile rejects: a '(' that is never
\* closed, a '[' that is never closed, a leading quantifier.
\* ------------------------------------------------------------------------
NoRule == [form |-> "null", type |-> "", text |-> <<>>]
PlainRule(t) == [form |-> "plain", type |-> "", text |-> t]
ObjectRule(ty, t) == [form |-> "object", type |-> ty, text |-> t]
ScalarRule(msg) == [form |-> "scalar", type |-> "", text |-> msg]
\* a JSON object of type 'json': schema is its "schema"
JsonRule(schema) == [form |-> "object", type |-> "json", text |-> <<>>, schema |-> schema]

Verdict(p, fmt, arg) == [raised |-> FALSE, passed |-> p, reasoning |-> [fmt |-> fmt, arg |-> arg]]
Raised(msg) == [raised |-> TRUE, passed |-> FALSE, reasoning |-> [fmt |-> "", arg |-> msg]]

\* re.compile(rule) raises re.error: "missing ), unterminated subpattern",
\* "unterminated character set", "nothing to repeat"
re_error(rule) ==
  \/ HasChar(rule, "(") /\ ~HasChar(rule, ")")
  \/ HasChar(rule, "[") /\ ~HasChar(rule, "]")
  \/ Len(rule) > 0 /\ rule[1] \in {"*", "+", "?"}

\* the pattern matches the text at 1-based position i: '.' is any character
\* but a newline, any other character is itself, ignoring case
re_match_at(rule, text, i) ==
  /\ i + Len(rule) - 1 <= Len(text)
  /\ \A k \in 1..Len(rule) :
       IF rule[k] = "." THEN text[i + k - 1] # "\n" ELSE LowerChar(rule[k]) = LowerChar(text[i + k - 1])

\* re.search(rule, text, re.IGNORECASE) is not None, for a pattern that compiles
re_search(rule, text) == \E i \in 1..(Len(text) + 1) : re_match_at(rule, text, i)

\* _validate_simple that fails a pattern that does not compile
_validate_simple_InvalidFails(response, rule) ==
  IF rule = <<>> THEN Verdict(TRUE, "No rule specified", <<>>)
  ELSE IF ~re_error(rule) /\ re_search(rule, response) THEN Verdict(TRUE, "Regex pattern '{rule}' matched", rule)
  ELSE Verdict(FALSE, "Pattern '{rule}' not found in response", rule)

\* lines 191-205
_validate_simple(response, rule) ==
  IF rule = <<>> THEN Verdict(TRUE, "No rule specified", <<>>)
  ELSE IF re_error(rule)
  THEN IF Contains(lower(response), lower(rule)) THEN Verdict(TRUE, "Substring '{rule}' found", rule)
       ELSE Verdict(FALSE, "Pattern '{rule}' not found in response", rule)
  ELSE IF re_search(rule, response) THEN Verdict(TRUE, "Regex pattern '{rule}' matched", rule)
  ELSE Verdict(FALSE, "Pattern '{rule}' not found in response", rule)

\* A JSON value as json.loads gives it: a str, an int or float, a bool, None,
\* a list, or a dict (a function from its keys to their values)
JStr(v) == [t |-> "str", v |-> v]
JNum == [t |-> "number"]
JBool == [t |-> "bool"]
JList == [t |-> "list"]
JDict(fields) == [t |-> "dict", fields |-> fields]
JInvalid == [t |-> "invalid"]

DocGoodText == <<"{","\"","t","i","t","l","e","\"",":","\"","x","\"",",","\"","s","c","o","r","e","\"",":","5","}">>
DocBoolText == <<"{","\"","t","i","t","l","e","\"",":","\"","x","\"",",","\"","s","c","o","r","e","\"",":","t","r","u","e","}">>
DocStrText == <<"{","\"","t","i","t","l","e","\"",":","\"","x","\"",",","\"","s","c","o","r","e","\"",":","\"","5","\"","}">>
DocMissingText == <<"{","\"","t","i","t","l","e","\"",":","\"","x","\"","}">>
DocNestedText == <<"{","\"","m","e","t","a","\"",":","{","\"","s","c","o","r","e","\"",":","5","}","}">>
DocNestedBadText == <<"{","\"","m","e","t","a","\"",":","{","\"","s","c","o","r","e","\"",":","[","]","}","}">>
DocBrokenText == <<"{","o","o","p","s","}">>

\* json.loads of the documents the responses of the model hold; any other
\* text raises json.JSONDecodeError
json_document(text) ==
  CASE text = DocGoodText -> JDict([title |-> JStr(<<"x">>), score |-> JNum])
    [] text = DocBoolText -> JDict([title |-> JStr(<<"x">>), score |-> JBool])
    [] text = DocStrText -> JDict([title |-> JStr(<<"x">>), score |-> JStr(<<"5">>)])
    [] text = DocMissingText -> JDict([title |-> JStr(<<"x">>)])
    [] text = DocNestedText -> JDict([meta |-> JDict([score |-> JNum])])
    [] text = DocNestedBadText -> JDict([meta |-> JDict([score |-> JList])])
    [] OTHER -> JInvalid

\* isinstance(data, (int, float)): bool is a subclass of int
IsIntOrFloat(data) == data.t \in {"number", "bool"}

\* a schema is a dict: type, and for 'object' properties (and required, which
\* the code does not read), for 'string' minLength and maxLength when given
SchemaGet(schema, key, default) == IF key \in DOMAIN schema THEN schema[key] ELSE default

\* lines 229-252
RECURSIVE _validate_json_schema(_, _)
_validate_json_schema(data, schema) ==
  LET schema_type == SchemaGet(schema, "type", None) IN
  IF schema_type = "object" /\ data.t = "dict"
  THEN \A prop \in DOMAIN SchemaGet(schema, "properties", <<>>) :
         prop \in DOMAIN data.fields => _validate_json_schema(data.fields[prop], schema.properties[prop])
  ELSE IF schema_type = "string" /\ data.t = "str"
  THEN /\ SchemaGet(schema, "minLength", 0) <= Len(data.v)
       /\ "maxLength" \in DOMAIN schema => Len(data.v) <= schema.maxLength
  ELSE IF schema_type = "number" /\ IsIntOrFloat(data) THEN TRUE
  ELSE IF schema_type = "array" /\ data.t = "list" THEN TRUE
  ELSE FALSE

\* the span from the first '{' to the last '}' of the response (lines 211-215)
JsonSpan(response) == SubSeq(response, find(response, "{"), rfind(response, "}"))

\* lines 207-227
_validate_json_structure(response, schema) ==
  IF find(response, "{") >= 1 /\ rfind(response, "}") > find(response, "{")
  THEN IF json_document(JsonSpan(response)) = JInvalid
       THEN Verdict(FALSE, "Invalid JSON format in response", <<>>)
       ELSE IF _validate_json_schema(json_document(JsonSpan(response)), schema)
       THEN Verdict(TRUE, "JSON structure matches schema", <<>>)
       ELSE Verdict(FALSE, "JSON structure does not match schema", <<>>)
  ELSE Verdict(FALSE, "No valid JSON found in response", <<>>)

\* judgment is what judge_response returned for this call
_validate_with_judge(response, judge_prompt, judgment) ==
  IF judge_prompt = <<>> THEN Verdict(FALSE, "No judge prompt specified", <<>>)
  ELSE Verdict(judgment.passed, "Judge: {reasoning}", judgment.reasoning)

\* _validate_response_intelligent rejecting a rule that is no JSON document
_validate_response_intelligent_PlainRejected(response, completion_rule, judgment) ==
  CASE completion_rule.form = "null" -> Verdict(TRUE, "No validation rule specified", <<>>)
    [] completion_rule.form = "scalar" -> Raised(completion_rule.text)
    [] completion_rule.form = "object" /\ completion_rule.type = "simple" -> _validate_simple(response, completion_rule.text)
    [] completion_rule.form = "object" /\ completion_rule.type = "json" -> _validate_json_structure(response, completion_rule.schema)
    [] completion_rule.form = "object" /\ completion_rule.type = "judge" -> _validate_with_judge(response, completion_rule.text, judgment)
    [] OTHER -> Verdict(FALSE, "Invalid completion rule format", <<>>)

\* lines 160-189
_validate_response_intelligent(response, completion_rule, judgment) ==
  CASE completion_rule.form = "null" -> Verdict(TRUE, "No validation rule specified", <<>>)
    [] completion_rule.form = "plain" -> _validate_simple(response, completion_rule.text)
    [] completion_rule.form = "scalar" -> Raised(completion_rule.text)
    [] completion_rule.form = "object" /\ completion_rule.type = "simple" -> _validate_simple(response, completion_rule.text)
    [] completion_rule.form = "object" /\ completion_rule.type = "json" -> _validate_json_structure(response, completion_rule.schema)
    [] completion_rule.form = "object" /\ completion_rule.type = "judge" -> _validate_with_judge(response, completion_rule.text, judgment)
    [] OTHER -> Verdict(FALSE, "Invalid completion rule format", <<>>)

\* ------------------------------------------------------------------------
\* State
\* ------------------------------------------------------------------------
RunIds == {"run1"}

VARIABLES
  workflow,         \* the stored workflow: its step rows, in insertion order (while
                    \* stage is "posted": the steps of the creation request)
  stage,            \* where the creation of the workflow stands: "stored" (rows that
                    \* were in the store before), "posted", "http200", "http400",
                    \* "http500" (nothing stored), "http500_stored"
  gateway,          \* the contents the model may answer with
  judge_api,        \* the contents the model may answer a judge request with
  db,               \* table runs: run id -> [status, logs]; status "absent" before create_run
  faults,           \* how many more calls of an external service (a store call, an
                    \* exchange with the model API) may fail
  pc,               \* run id -> where the request / the execute task of the run stands
  logs,             \* run id -> self.logs of the run's WorkflowRunner
  steps,            \* run id -> the local list steps of execute
  cur,              \* run id -> position in steps of the step of the for loop
  retry,            \* run id -> the retry counter of _execute_step
  previous_output,  \* run id -> the local previous_output of execute
  result,           \* run id -> what execute returned ("none" until it returns)
  calls,            \* run id -> generate_text calls made: [step, retries, kind, model, judge]
  events,           \* run id -> the exceptions raised so far, by where they arose
  seen              \* run id -> what poll_run of the client returned or raised for the run

vars == <<workflow, stage, gateway, judge_api, db, faults, pc, logs, steps, cur, retry, previous_output, result, calls, events, seen>>

\* ------------------------------------------------------------------------
\* Store (supabase_client.py)
\* ------------------------------------------------------------------------
StoreErrText == <<"S","e","r","v","e","r"," ","d","i","s","c","o","n","n","e","c","t","e","d">>

\* A store call either takes effect or raises; it raises only while faults > 0.
StoreOutcomes == IF faults > 0 THEN {"ok", "raise"} ELSE {"ok"}

\* InsertByOrder that puts the row at the end: the list stays as it was given
InsertByOrder_AtEnd(sorted, row) == Append(sorted, row)

RECURSIVE InsertByOrder(_, _)
InsertByOrder(sorted, row) ==
  IF Len(sorted) = 0 THEN <<row>>
  ELSE IF row.step_order < sorted[1].step_order THEN <<row>> \o sorted
  ELSE <<sorted[1]>> \o InsertByOrder(Tail(sorted), row)

RECURSIVE SortByOrder(_)
\* rows by ascending step_order, equal orders in their given order
SortByOrder(rows) ==
  IF Len(rows) = 0 THEN <<>>
  ELSE InsertByOrder(SortByOrder(SubSeq(rows, 1, Len(rows) - 1)), rows[Len(rows)])

\* get_workflow_with_steps: .order("step_order")
get_workflow_with_steps == [steps |-> SortByOrder(workflow)]

\* create_run
create_run == [status |-> "pending", logs |-> <<>>]

\* update_run_logs without the filter on the run id: every row is updated
update_run_logs_EveryRow(run_id, run_logs, status) == [rr \in DOMAIN db |-> [status |-> status, logs |-> run_logs]]

\* update_run_logs: one update of the row with the whole list and the status
update_run_logs(run_id, run_logs, status) == [db EXCEPT ![run_id] = [status |-> status, logs |-> run_logs]]

\* get_run: the row of the run
get_run(run_id) == db[run_id]

\* ------------------------------------------------------------------------
\* Workflow creation (routes/workflows.py create_workflow_endpoint)
\* ------------------------------------------------------------------------
\* line 38: if step.model and step.model not in SUPPORTED_MODELS
Rejected(posted) ==
  \E i \in 1..Len(posted) : posted[i].model \notin {None, ""} /\ posted[i].model \notin SUPPORTED_MODELS

\* lines 50-57: the rows handed to create_steps
StepsData(posted) == [i \in 1..Len(posted) |-> [posted[i] EXCEPT !.model = validate_model(@)]]

\* The store call of the handler that raises, if any
CreateOutcomes ==
  {"none"} \cup (IF faults > 0 THEN {"create_workflow", "create_steps", "get_workflow"} ELSE {})

\* The workflow exists in the store
WorkflowExists == stage \in {"stored", "http200", "http500_stored"}

\* fails: the store call that raises.  create_workflow raising leaves nothing
\* stored; create_steps raising leaves the workflow without steps; the final
\* read raising leaves the workflow as created.
create_workflow_endpoint(fails) ==
  /\ stage = "posted"
  /\ IF Rejected(workflow)
     THEN /\ fails = "none"
          /\ stage' = "http400"
          /\ UNCHANGED <<workflow, faults>>
     ELSE IF fails = "none"
     THEN /\ stage' = "http200"
          /\ workflow' = StepsData(workflow)
          /\ UNCHANGED faults
     ELSE /\ fails = "create_steps" => Len(workflow) > 0
          /\ stage' = IF fails = "create_workflow" THEN "http500" ELSE "http500_stored"
          /\ workflow' = IF fails = "get_workflow" THEN StepsData(workflow)
                         ELSE IF fails = "create_steps" THEN <<>> ELSE workflow
          /\ faults' = faults - 1
  /\ UNCHANGED <<gateway, judge_api, db, pc, logs, steps, cur, retry, previous_output, result, calls, events, seen>>

\* run_workflow_endpoint creating the run record before it looks the workflow up
run_workflow_endpoint_CreateFirst(r, found, store) ==
  /\ pc[r] = "new"
  /\ stage # "posted"
  /\ found => WorkflowExists
  /\ IF store = "raise"
     THEN /\ pc' = [pc EXCEPT ![r] = "http500"]
          /\ faults' = faults - 1
          /\ events' = [events EXCEPT ![r] = @ \cup {"create_run"}]
          /\ UNCHANGED db
     ELSE /\ db' = [db EXCEPT ![r] = create_run]
          /\ pc' = [pc EXCEPT ![r] = IF found THEN "scheduled" ELSE "http404"]
          /\ UNCHANGED <<faults, events>>
  /\ UNCHANGED <<workflow, stage, gateway, judge_api, logs, steps, cur, retry, previous_output, result, calls, seen>>

\* ------------------------------------------------------------------------
\* Run request (routes/workflows.py run_workflow_endpoint)
\* ------------------------------------------------------------------------
\* found: whether the lookup of the workflow succeeds; store: what create_run does
run_workflow_endpoint(r, found, store) ==
  /\ pc[r] = "new"
  /\ stage # "posted"
  /\ found => WorkflowExists
  /\ IF ~found
     THEN /\ pc' = [pc EXCEPT ![r] = "http404"]
          /\ UNCHANGED <<db, faults, events>>
     ELSE IF store = "raise"
     THEN /\ pc' = [pc EXCEPT ![r] = "http500"]
          /\ faults' = faults - 1
          /\ events' = [events EXCEPT ![r] = @ \cup {"create_run"}]
          /\ UNCHANGED db
     ELSE /\ db' = [db EXCEPT ![r] = create_run]
          /\ pc' = [pc EXCEPT ![r] = "scheduled"]
          /\ UNCHANGED <<faults, events>>
  /\ UNCHANGED <<workflow, stage, gateway, judge_api, logs, steps, cur, retry, previous_output, result, calls, seen>>

\* ------------------------------------------------------------------------
\* WorkflowRunner.execute
\* ------------------------------------------------------------------------
\* _update_run_status(status) at label `at`: on success control goes to `next`
\* (and execute returns `ret` when next is "done"); an exception goes to the
\* except clause of execute.
_update_run_status(r, status, store, at, next, ret) ==
  IF store = "ok"
  THEN /\ db' = update_run_logs(r, logs[r], status)
       /\ pc' = [pc EXCEPT ![r] = next]
       /\ result' = [result EXCEPT ![r] = ret]
       /\ UNCHANGED <<faults, events>>
  ELSE /\ faults' = faults - 1
       /\ events' = [events EXCEPT ![r] = @ \cup {at}]
       /\ pc' = [pc EXCEPT ![r] = "except"]
       /\ UNCHANGED <<db, result>>

\* line 21: await self._update_run_status("running")
MarkRunning(r, store) ==
  /\ pc[r] = "scheduled"
  /\ _update_run_status(r, "running", store, "store_running", "fetch", "none")
  /\ UNCHANGED <<workflow, stage, gateway, judge_api, logs, steps, cur, retry, previous_output, calls, seen>>

\* lines 24-35: the lookup, the empty check, the sort
FetchSteps(r, found) ==
  /\ pc[r] = "fetch"
  /\ IF ~found
     THEN /\ pc' = [pc EXCEPT ![r] = "except"]
          /\ events' = [events EXCEPT ![r] = @ \cup {"lookup"}]
          /\ UNCHANGED <<steps, cur, retry, previous_output>>
     ELSE LET fetched == get_workflow_with_steps.steps IN
          IF Len(fetched) = 0
          THEN /\ pc' = [pc EXCEPT ![r] = "failing"]
               /\ UNCHANGED <<steps, cur, retry, previous_output, events>>
          ELSE /\ steps' = [steps EXCEPT ![r] = SortByOrder(fetched)]
               /\ cur' = [cur EXCEPT ![r] = 1]
               /\ retry' = [retry EXCEPT ![r] = 0]
               /\ previous_output' = [previous_output EXCEPT ![r] = <<>>]
               /\ pc' = [pc EXCEPT ![r] = "step"]
               /\ UNCHANGED events
  /\ UNCHANGED <<workflow, stage, gateway, judge_api, db, faults, logs, result, calls, seen>>

\* What the exchange of one generate_text call may do: answer with one of
\* the contents, or fail while faults > 0
Status500 == <<"5","0","0">>
StatusCodes == {Status500}

GatewayOutcomes ==
  {GatewayOk(c) : c \in gateway} \cup
  (IF faults > 0 THEN {GatewayStatus(code) : code \in StatusCodes} \cup {GatewayTimeout, GatewayException} ELSE {})

\* ------------------------------------------------------------------------
\* WorkflowRunner._execute_step
\* ------------------------------------------------------------------------
LogEntry(step, prompt, response, passed, retries, model_used, reasoning) ==
  [step |-> step, prompt |-> prompt, response |-> response, passed |-> passed,
   retries |-> retries, model_used |-> model_used, validation_reasoning |-> reasoning]

\* lines 106-115: the entry of the except clause, for exception message msg
ErrorEntry(step, retries, msg) ==
  LogEntry(step.step_order, step.prompt, ErrorHead \o msg, FALSE, retries, step.model,
           [fmt |-> "Execution error: {e}", arg |-> msg])

\* json.loads on the documents the model uses: a JSON object is given by its
\* keys and the values of "passed" and "reasoning", a JSON number is "scalar",
\* any other text is no JSON document (json.JSONDecodeError).
VerdictYes == <<"{","\"","p","a","s","s","e","d","\"",":"," ","t","r","u","e",","," ","\"","r","e","a","s","o","n","i","n","g","\"",":"," ","\"","y","e","s","\"","}">>
VerdictNo == <<"{","\"","p","a","s","s","e","d","\"",":"," ","f","a","l","s","e",","," ","\"","r","e","a","s","o","n","i","n","g","\"",":"," ","\"","n","o","\"","}">>
PartialDoc == <<"{","\"","p","a","s","s","e","d","\"",":"," ","f","a","l","s","e","}">>
ScalarDoc == <<"5">>

JsonObject(keys, passed, reasoning) == [form |-> "object", keys |-> keys, passed |-> passed, reasoning |-> reasoning]

json_loads(text) ==
  CASE text = VerdictYes -> JsonObject({"passed", "reasoning"}, TRUE, <<"y","e","s">>)
    [] text = VerdictNo -> JsonObject({"passed", "reasoning"}, FALSE, <<"n","o">>)
    [] text = PartialDoc -> JsonObject({"passed"}, FALSE, <<>>)
    [] text = ScalarDoc -> [form |-> "scalar", keys |-> {}, passed |-> FALSE, reasoning |-> <<>>]
    [] OTHER -> [form |-> "invalid", keys |-> {}, passed |-> FALSE, reasoning |-> <<>>]

JudgeUnavailableText == <<"J","u","d","g","e"," ","u","n","a","v","a","i","l","a","b","l","e",","," ","d","e","f","a","u","l","t","i","n","g"," ","t","o"," ","p","a","s","s">>

\* lines 145-146: the fallback judgment
JudgeDefault == [passed |-> TRUE, reasoning |-> JudgeUnavailableText]

\* lines 136-138: the fallback parsing of a reply that gave no judgment
JudgeFallback(judge_text) ==
  [passed |-> Contains(lower(judge_text), <<"t","r","u","e">>) \/ Contains(lower(judge_text), <<"p","a","s","s">>),
   reasoning |-> Prefix(judge_text, JUDGE_KEEP)]

\* judge_response (unbound_client.py lines 89-146) for what its exchange with
\* the model API does (the contents carry no surrounding whitespace).  A
\* content that json.loads turns into a number makes `"passed" in judgment`
\* raise TypeError, which the outer except answers with the default.
judge_response(reply) ==
  IF reply.kind # "ok" THEN JudgeDefault
  ELSE LET judgment == json_loads(reply.text) IN
       IF judgment.form = "object" /\ {"passed", "reasoning"} \subseteq judgment.keys
       THEN [passed |-> judgment.passed, reasoning |-> judgment.reasoning]
       ELSE IF judgment.form = "scalar" THEN JudgeDefault
       ELSE JudgeFallback(reply.text)

\* no judge call is made in the attempt
NoJudge == [kind |-> "none", text |-> <<>>]

\* how the judge exchange of an attempt went, for the record of the call:
\* "none", a failure kind, or what the content of the reply is
JudgeKind(reply) ==
  IF reply.kind # "ok" THEN reply.kind
  ELSE LET judgment == json_loads(reply.text) IN
       IF judgment.form # "object" THEN judgment.form
       ELSE IF {"passed", "reasoning"} \subseteq judgment.keys THEN "verdict" ELSE "partial"

\* What the exchange of one judge_response call may do: answer with one of
\* the contents of judge_api, or fail while faults > 0
JudgeOutcomes ==
  {GatewayOk(c) : c \in judge_api} \cup
  (IF faults > 0 THEN {GatewayStatus(Status500), GatewayException} ELSE {})

JudgeCalled(step) ==
  step.completion_rule.form = "object" /\ step.completion_rule.type = "judge" /\ step.completion_rule.text # <<>>

JudgeChoices(step) == IF JudgeCalled(step) THEN JudgeOutcomes ELSE {NoJudge}

\* AfterAttempt reporting success when the retries are exhausted
AfterAttempt_ExhaustedPasses(passed, retries) ==
  IF passed \/ retries = max_retries THEN "return_true" ELSE "continue"

\* After a try body that got as far as line 98 without raising
AfterAttempt(passed, retries) ==
  IF passed THEN "return_true" ELSE IF retries = max_retries THEN "return_false" ELSE "continue"

\* After an except clause whose _save_logs did not raise
AfterExcept(retries) ==
  IF retries = max_retries THEN "return_false" ELSE "continue"

\* One iteration of the for loop of _execute_step (lines 59-121) for run r:
\* http is what the model call does, judgment what the exchange of the judge does, save1
\* what _save_logs of line 97 does and save2 what _save_logs of line 118 does.
\* Gives the new self.logs, whether a write reached the store, which store
\* calls were made, how many calls failed, and how the iteration ends.
IterationEnd(r, step, call, entry, v, save1, save2) ==
  LET down == (IF call.kind = "ok" THEN 0 ELSE 1) + (IF call.judge \in {"status", "exception"} THEN 1 ELSE 0) IN
  IF ~v.raised /\ save1 = "ok"
  THEN [logs |-> Append(logs[r], entry), saved |-> TRUE, made |-> {"save1"}, failed |-> down, call |-> call,
        events |-> {}, ends |-> AfterAttempt(v.passed, retry[r])]
  ELSE LET logs2 == IF v.raised
                    THEN Append(logs[r], ErrorEntry(step, retry[r], v.reasoning.arg))
                    ELSE Append(Append(logs[r], entry), ErrorEntry(step, retry[r], StoreErrText))
           made == IF v.raised THEN {"save2"} ELSE {"save1", "save2"}
           before == IF v.raised THEN 0 ELSE 1
           events1 == IF v.raised THEN {"validator"} ELSE {"store_save"}
       IN IF save2 = "ok"
          THEN [logs |-> logs2, saved |-> TRUE, made |-> made, failed |-> down + before, call |-> call,
                events |-> events1, ends |-> AfterExcept(retry[r])]
          ELSE [logs |-> logs2, saved |-> FALSE, made |-> made, failed |-> down + before + 1, call |-> call,
                events |-> events1 \cup {"store_save_except"}, ends |-> "raise"]

IterationValidate(r, step, model, prompt, call, response, judgment, save1, save2) ==
  LET v == _validate_response_intelligent(response, step.completion_rule, judge_response(judgment))
  IN IterationEnd(r, step, call,
                  LogEntry(step.step_order, prompt, response, v.passed, retry[r], model, v.reasoning),
                  v, save1, save2)

Iteration(r, http, judgment, save1, save2) ==
  LET step == steps[r][cur[r]]
      model == validate_model(step.model)
      prompt == _inject_context(step.prompt, previous_output[r], step.context_strategy)
      call == [step |-> step.step_order, retries |-> retry[r], kind |-> http.kind, model |-> model,
               judge |-> JudgeKind(judgment)]
  IN IterationValidate(r, step, model, prompt, call, generate_text(prompt, model, http), judgment, save1, save2)

\* NextPreviousOutput reading the first log entry instead of the last
NextPreviousOutput_First(run_logs, previous) ==
  IF Len(run_logs) > 0 THEN run_logs[1].response ELSE previous

\* lines 44-45: if self.logs: previous_output = self.logs[-1]["response"]
NextPreviousOutput(run_logs, previous) ==
  IF Len(run_logs) > 0 THEN run_logs[Len(run_logs)].response ELSE previous

\* The iteration as a step of execute (lines 37-45): on success of the step
\* previous_output becomes the response of the last log entry and the loop
\* goes to the next step or leaves; on failure execute goes to line 40; an
\* exception leaving _execute_step goes to the except clause of execute.
Attempt(r) ==
  /\ pc[r] = "step"
  /\ \E http \in GatewayOutcomes, judgment \in JudgeChoices(steps[r][cur[r]]), save1 \in StoreOutcomes, save2 \in StoreOutcomes :
     \E it \in {Iteration(r, http, judgment, save1, save2)} :
     /\ it.failed <= faults
     /\ save1 = "raise" => "save1" \in it.made
     /\ save2 = "raise" => it.ends = "raise"
     /\ logs' = [logs EXCEPT ![r] = it.logs]
     /\ db' = IF it.saved THEN update_run_logs(r, it.logs, "running") ELSE db
     /\ faults' = faults - it.failed
     /\ calls' = [calls EXCEPT ![r] = Append(@, it.call)]
     /\ events' = [events EXCEPT ![r] = @ \cup it.events]
     /\ IF it.ends = "continue"
        THEN /\ retry' = [retry EXCEPT ![r] = @ + 1]
             /\ UNCHANGED <<pc, cur, previous_output>>
        ELSE IF it.ends = "return_true"
        THEN /\ previous_output' = [previous_output EXCEPT ![r] = NextPreviousOutput(it.logs, @)]
             /\ retry' = [retry EXCEPT ![r] = 0]
             /\ IF cur[r] < Len(steps[r])
                THEN /\ cur' = [cur EXCEPT ![r] = @ + 1]
                     /\ UNCHANGED pc
                ELSE /\ pc' = [pc EXCEPT ![r] = "completing"]
                     /\ UNCHANGED cur
        ELSE /\ pc' = [pc EXCEPT ![r] = IF it.ends = "return_false" THEN "failing" ELSE "except"]
             /\ UNCHANGED <<cur, retry, previous_output>>
  /\ UNCHANGED <<workflow, stage, gateway, judge_api, steps, result, seen>>

\* FailRun without the return of line 41: control goes on to line 48
FailRun_NoReturn(r, store) ==
  /\ pc[r] = "failing"
  /\ _update_run_status(r, "failed", store, "store_failed", "completing", "none")
  /\ UNCHANGED <<workflow, stage, gateway, judge_api, logs, steps, cur, retry, previous_output, calls, seen>>

\* lines 28-29 and 40-41: await self._update_run_status("failed"); return False
FailRun(r, store) ==
  /\ pc[r] = "failing"
  /\ _update_run_status(r, "failed", store, "store_failed", "done", "false")
  /\ UNCHANGED <<workflow, stage, gateway, judge_api, logs, steps, cur, retry, previous_output, calls, seen>>

\* lines 48-49: await self._update_run_status("completed"); return True
CompleteRun(r, store) ==
  /\ pc[r] = "completing"
  /\ _update_run_status(r, "completed", store, "store_completed", "done", "true")
  /\ UNCHANGED <<workflow, stage, gateway, judge_api, logs, steps, cur, retry, previous_output, calls, seen>>

\* lines 51-53: except Exception: await self._update_run_status("failed");
\* return False.  An exception of this write leaves execute.
HandleException(r, store) ==
  /\ pc[r] = "except"
  /\ IF store = "ok"
     THEN /\ db' = update_run_logs(r, logs[r], "failed")
          /\ pc' = [pc EXCEPT ![r] = "done"]
          /\ result' = [result EXCEPT ![r] = "false"]
          /\ UNCHANGED <<faults, events>>
     ELSE /\ faults' = faults - 1
          /\ events' = [events EXCEPT ![r] = @ \cup {"store_except"}]
          /\ pc' = [pc EXCEPT ![r] = "raised"]
          /\ UNCHANGED <<db, result>>
  /\ UNCHANGED <<workflow, stage, gateway, judge_api, logs, steps, cur, retry, previous_output, calls, seen>>

\* ------------------------------------------------------------------------
\* Reading a run (models/schemas.py, routes/runs.py, test_api.py poll_run)
\* ------------------------------------------------------------------------
\* LogEntry(**log_data) of models/schemas.py: the declared fields step,
\* prompt, response, passed, retries, model_used (and timestamp); a key of
\* log_data that is no declared field is ignored (pydantic's default)
schemas_LogEntry(log_data) ==
  [step |-> log_data.step, prompt |-> log_data.prompt, response |-> log_data.response,
   passed |-> log_data.passed, retries |-> log_data.retries, model_used |-> log_data.model_used]

\* Run(...) of lines 19-25 of routes/runs.py, as the caller receives it
get_run_endpoint(run_id) ==
  LET run_data == get_run(run_id)
  IN [status |-> run_data.status, logs |-> [i \in 1..Len(run_data.logs) |-> schemas_LogEntry(run_data.logs[i])]]

NoReply == [status |-> "none", logs |-> <<>>]
ReadFailed == [status |-> "http500", logs |-> <<>>]

\* One poll of poll_run (test_api.py lines 20-31) for a run whose id the
\* client got from the run request: GET /runs/{id}; a response with a
\* terminal status is returned to the caller of poll_run, any other
\* response is dropped and the client polls again; when get_run raises the
\* handler answers 500 and raise_for_status ends poll_run.
poll_run(r, store) ==
  /\ db[r].status # "absent"
  /\ seen[r] = NoReply
  /\ IF store = "raise"
     THEN /\ faults' = faults - 1
          /\ seen' = [seen EXCEPT ![r] = ReadFailed]
     ELSE /\ seen' = [seen EXCEPT ![r] = IF get_run_endpoint(r).status \in {"completed", "failed"}
                                        THEN get_run_endpoint(r) ELSE @]
          /\ UNCHANGED faults
  /\ UNCHANGED <<workflow, stage, gateway, judge_api, db, pc, logs, steps, cur, retry, previous_output, result, calls, events>>

\* ------------------------------------------------------------------------
\* Inputs
\* ------------------------------------------------------------------------
PromptPlain == <<"H","i">>
PromptCtx == <<"R","e",":"," ","{","{","p","r","e","v","i","o","u","s","}","}">>
RuleOk == <<"o","k">>
AttrErrInt == <<"'","i","n","t","'"," ","o","b","j","e","c","t"," ","h","a","s"," ","n","o"," ","a","t","t","r","i","b","u","t","e"," ","'","g","e","t","'">>
JudgePrompt == <<"g","o","o","d","?">>
RespOK == <<"O","K">>
Rules == {NoRule, ObjectRule("simple", RuleOk), ObjectRule("simple", <<>>), ObjectRule("judge", JudgePrompt), ScalarRule(AttrErrInt)}

StepRow(order, model, prompt, rule, strategy) ==
  [step_order |-> order, model |-> model, prompt |-> prompt, completion_rule |-> rule, context_strategy |-> strategy]

\* The step at position i of the sorted list has step order 2i - 1 (unique,
\* not contiguous); the first step has a prompt without the placeholder and
\* no model, the later ones a prompt with the placeholder and a model
\* outside the allowlist.
StepAt(i, rule) ==
  IF i = 1 THEN StepRow(1, None, PromptPlain, rule, "auto")
  ELSE StepRow(2 * i - 1, "openrouter/free", PromptCtx, rule, "full")

Reverse(s) == [i \in 1..Len(s) |-> s[Len(s) + 1 - i]]

\* Workflows of at most MaxSteps steps, stored in descending step order; one
\* step at most has a completion rule, any of Rules, at any position
RuleChoices(n) == {rules \in [1..n -> Rules] : Cardinality({i \in 1..n : rules[i] # NoRule}) <= 1}

Workflows ==
  UNION {{Reverse([i \in 1..n |-> StepAt(i, rules[i])]) : rules \in RuleChoices(n)} : n \in 0..MaxSteps}

TypeOK ==
  /\ faults \in 0..MaxFaults
  /\ stage \in {"stored", "posted", "http200", "http400", "http500", "http500_stored"}
  /\ \A r \in RunIds : pc[r] \in {"new", "http404", "http500", "scheduled", "fetch", "step", "failing", "completing", "except", "done", "raised"}

Init ==
  /\ workflow \in Workflows
  /\ stage \in {"stored", "posted"}
  /\ gateway = {<<>>, RespOK}
  /\ judge_api = {VerdictYes, VerdictNo}
  /\ db = [r \in RunIds |-> [status |-> "absent", logs |-> <<>>]]
  /\ faults = MaxFaults
  /\ pc = [r \in RunIds |-> "new"]
  /\ logs = [r \in RunIds |-> <<>>]
  /\ steps = [r \in RunIds |-> <<>>]
  /\ cur = [r \in RunIds |-> 0]
  /\ retry = [r \in RunIds |-> 0]
  /\ previous_output = [r \in RunIds |-> <<>>]
  /\ result = [r \in RunIds |-> "none"]
  /\ calls = [r \in RunIds |-> <<>>]
  /\ events = [r \in RunIds |-> {}]
  /\ seen = [r \in RunIds |-> NoReply]

Next ==
  \/ \E fails \in CreateOutcomes : create_workflow_endpoint(fails)
  \/ \E r \in DOMAIN pc, found \in BOOLEAN, store \in StoreOutcomes : run_workflow_endpoint(r, found, store)
  \/ \E r \in DOMAIN pc, store \in StoreOutcomes : MarkRunning(r, store)
  \/ \E r \in DOMAIN pc, found \in BOOLEAN : FetchSteps(r, found)
  \/ \E r \in DOMAIN pc : Attempt(r)
  \/ \E r \in DOMAIN pc, store \in StoreOutcomes : FailRun(r, store)
  \/ \E r \in DOMAIN pc, store \in StoreOutcomes : CompleteRun(r, store)
  \/ \E r \in DOMAIN pc, store \in StoreOutcomes : HandleException(r, store)
  \/ \E r \in DOMAIN pc, store \in StoreOutcomes : poll_run(r, store)

Spec == Init /\ [][Next]_vars

\* ------------------------------------------------------------------------
\* Context passing between two steps (test_api.py, "3. Context Passing
\* Between Steps"): step 1 has no completion rule, step 2's prompt holds the
\* placeholder.  The responses and the strategy tags range over the cases
\* _inject_context tells apart.
\* ------------------------------------------------------------------------
CtxFaults == 1
LongLen == AUTO_LIMIT + 1

RespLong == [i \in 1..LongLen |-> "x"]
RespToken == <<"a"," ">> \o PLACEHOLDER
RespDash == <<"a","-","b">>
RespEdge == [i \in 1..AUTO_LIMIT |-> IF i = 1 THEN "{" ELSE "x"]
CtxResponses == {<<>>, RespOK, RespLong, RespToken, RespDash, RespEdge}
CtxStrategies == {"auto", "summary", "extract", "full", None}
CtxRules == {NoRule, ScalarRule(AttrErrInt)}

CtxPrompts == {PromptCtx, PromptPlain}

CtxWorkflows ==
  {<<StepRow(3, "openrouter/free", prompt, rule, strategy), StepRow(1, None, first, NoRule, "auto")>> :
     prompt \in CtxPrompts, first \in CtxPrompts, rule \in CtxRules, strategy \in CtxStrategies}

InitCtx ==
  /\ workflow \in CtxWorkflows
  /\ stage \in {"stored", "posted"}
  /\ gateway = CtxResponses
  /\ judge_api = {VerdictYes, VerdictNo}
  /\ db = [r \in RunIds |-> [status |-> "absent", logs |-> <<>>]]
  /\ faults = CtxFaults
  /\ pc = [r \in RunIds |-> "new"]
  /\ logs = [r \in RunIds |-> <<>>]
  /\ steps = [r \in RunIds |-> <<>>]
  /\ cur = [r \in RunIds |-> 0]
  /\ retry = [r \in RunIds |-> 0]
  /\ previous_output = [r \in RunIds |-> <<>>]
  /\ result = [r \in RunIds |-> "none"]
  /\ calls = [r \in RunIds |-> <<>>]
  /\ events = [r \in RunIds |-> {}]
  /\ seen = [r \in RunIds |-> NoReply]

SpecCtx == InitCtx /\ [][Next]_vars

\* ------------------------------------------------------------------------
\* Judge mode: a one-step workflow whose completion rule is of type 'judge',
\* with or without a judge prompt; the judge request is answered by a
\* judgment, by a JSON object without 'reasoning', by a JSON number, by text
\* that is no JSON, or not at all.
\* ------------------------------------------------------------------------
JudgeFaults == 1

ReplyBad == <<"b","a","d">>
JudgeContents == {VerdictYes, VerdictNo, PartialDoc, ScalarDoc, ReplyBad}
JudgeRules == {ObjectRule("judge", JudgePrompt), ObjectRule("judge", <<>>)}
JudgeWorkflows == {<<StepRow(1, None, PromptPlain, rule, "auto")>> : rule \in JudgeRules}

InitJudge ==
  /\ workflow \in JudgeWorkflows
  /\ stage \in {"stored", "posted"}
  /\ gateway = {RespOK}
  /\ judge_api = JudgeContents
  /\ db = [r \in RunIds |-> [status |-> "absent", logs |-> <<>>]]
  /\ faults = JudgeFaults
  /\ pc = [r \in RunIds |-> "new"]
  /\ logs = [r \in RunIds |-> <<>>]
  /\ steps = [r \in RunIds |-> <<>>]
  /\ cur = [r \in RunIds |-> 0]
  /\ retry = [r \in RunIds |-> 0]
  /\ previous_output = [r \in RunIds |-> <<>>]
  /\ result = [r \in RunIds |-> "none"]
  /\ calls = [r \in RunIds |-> <<>>]
  /\ events = [r \in RunIds |-> {}]
  /\ seen = [r \in RunIds |-> NoReply]

SpecJudge == InitJudge /\ [][Next]_vars

\* ------------------------------------------------------------------------
\* Simple mode and the plain-pattern fallback: a one-step workflow whose
\* completion rule is a stored string that is no JSON object (a plain
\* pattern, a JSON number, a JSON literal) or a rule of type 'simple'.  The
\* patterns: two literal ones, one with '.', one that does not compile.
\* ------------------------------------------------------------------------
SimpleFaults == 1

RuleHello == <<"H","e","l","l","o">>
RuleXyzzy == <<"X","Y","Z","Z","Y">>
RuleDot == <<"h",".","l">>
RuleOpen == <<"(","o">>
RuleFive == <<"5">>
RuleTrue == <<"t","r","u","e">>
RespHello == <<"h","e","l","l","o"," ","w","o","r","l","d">>
RespBye == <<"g","o","o","d","b","y","e">>
RespParen == <<"x"," ","(","O"," ","y">>

AttrErrTail == <<"'"," ","o","b","j","e","c","t"," ","h","a","s"," ","n","o"," ","a","t","t","r","i","b","u","t","e"," ","'","g","e","t","'">>
AttrErrBool == <<"'","b","o","o","l">> \o AttrErrTail
AttrErrNone == <<"'","N","o","n","e","T","y","p","e">> \o AttrErrTail

DIGITS == {"0","1","2","3","4","5","6","7","8","9"}

\* json.loads(completion_rule) of line 167 for a stored string without
\* whitespace, quote, bracket or brace: a JSON number or literal is a value
\* without .get (AttributeError at line 168), any other text raises
\* json.JSONDecodeError; line 162 takes the empty string as no rule
CompletionRule(text) ==
  IF text = <<>> THEN NoRule
  ELSE IF \A i \in 1..Len(text) : text[i] \in DIGITS THEN ScalarRule(AttrErrInt)
  ELSE IF text \in {<<"t","r","u","e">>, <<"f","a","l","s","e">>} THEN ScalarRule(AttrErrBool)
  ELSE IF text = <<"n","u","l","l">> THEN ScalarRule(AttrErrNone)
  ELSE PlainRule(text)

SimplePatterns == {RuleHello, RuleXyzzy, RuleDot, RuleOpen}
SimpleRules ==
  {CompletionRule(t) : t \in SimplePatterns \cup {RuleFive, RuleTrue}} \cup {ObjectRule("simple", t) : t \in SimplePatterns}
SimpleWorkflows == {<<StepRow(1, None, PromptPlain, rule, "auto")>> : rule \in SimpleRules}

InitSimple ==
  /\ workflow \in SimpleWorkflows
  /\ stage \in {"stored", "posted"}
  /\ gateway = {RespHello, RespBye, RespParen}
  /\ judge_api = {VerdictYes, VerdictNo}
  /\ db = [r \in RunIds |-> [status |-> "absent", logs |-> <<>>]]
  /\ faults = SimpleFaults
  /\ pc = [r \in RunIds |-> "new"]
  /\ logs = [r \in RunIds |-> <<>>]
  /\ steps = [r \in RunIds |-> <<>>]
  /\ cur = [r \in RunIds |-> 0]
  /\ retry = [r \in RunIds |-> 0]
  /\ previous_output = [r \in RunIds |-> <<>>]
  /\ result = [r \in RunIds |-> "none"]
  /\ calls = [r \in RunIds |-> <<>>]
  /\ events = [r \in RunIds |-> {}]
  /\ seen = [r \in RunIds |-> NoReply]

SpecSimple == InitSimple /\ [][Next]_vars

\* ------------------------------------------------------------------------
\* JSON mode (test_api.py, "4. JSON Schema Validation"): a one-step workflow
\* whose completion rule is of type 'json'; the responses hold a document
\* that fits the schema, ones with a property of another type, one without a
\* declared property, nested ones, one that is no JSON, or no braces at all.
\* ------------------------------------------------------------------------
JsonFaults == 1

SchemaFlat ==
  [type |-> "object",
   properties |-> [title |-> [type |-> "string", minLength |-> 1], score |-> [type |-> "number"]],
   required |-> {"title", "score"}]
SchemaNested ==
  [type |-> "object", properties |-> [meta |-> [type |-> "object", properties |-> [score |-> [type |-> "number"]]]]]
Schemas == {SchemaFlat, SchemaNested}

Framed(doc) == <<"p","r","e","f","i","x"," ">> \o doc \o <<" ","s","u","f","f","i","x">>
JsonResponses ==
  {Framed(DocGoodText), DocBoolText, DocStrText, DocMissingText, DocNestedText, DocNestedBadText, DocBrokenText, RespBye}
JsonWorkflows == {<<StepRow(1, None, PromptPlain, JsonRule(schema), "auto")>> : schema \in Schemas}

InitJson ==
  /\ workflow \in JsonWorkflows
  /\ stage \in {"stored", "posted"}
  /\ gateway = JsonResponses
  /\ judge_api = {VerdictYes, VerdictNo}
  /\ db = [r \in RunIds |-> [status |-> "absent", logs |-> <<>>]]
  /\ faults = JsonFaults
  /\ pc = [r \in RunIds |-> "new"]
  /\ logs = [r \in RunIds |-> <<>>]
  /\ steps = [r \in RunIds |-> <<>>]
  /\ cur = [r \in RunIds |-> 0]
  /\ retry = [r \in RunIds |-> 0]
  /\ previous_output = [r \in RunIds |-> <<>>]
  /\ result = [r \in RunIds |-> "none"]
  /\ calls = [r \in RunIds |-> <<>>]
  /\ events = [r \in RunIds |-> {}]
  /\ seen = [r \in RunIds |-> NoReply]

SpecJson == InitJson /\ [][Next]_vars

\* ------------------------------------------------------------------------
\* Concurrent runs: two run requests for the same workflow, each with its own
\* WorkflowRunner (workflow_runner.py lines 12-15), their execute tasks
\* interleaved at the awaits.
\* ------------------------------------------------------------------------
RunsFaults == 1

TwoRuns == {"run1", "run2"}
RunsWorkflows == {<<StepRow(1, None, PromptPlain, rule, "auto")>> : rule \in {NoRule, ObjectRule("simple", RuleOk)}}

InitRuns ==
  /\ workflow \in RunsWorkflows
  /\ stage \in {"stored", "posted"}
  /\ gateway = {<<>>, RespOK}
  /\ judge_api = {VerdictYes, VerdictNo}
  /\ db = [r \in TwoRuns |-> [status |-> "absent", logs |-> <<>>]]
  /\ faults = RunsFaults
  /\ pc = [r \in TwoRuns |-> "new"]
  /\ logs = [r \in TwoRuns |-> <<>>]
  /\ steps = [r \in TwoRuns |-> <<>>]
  /\ cur = [r \in TwoRuns |-> 0]
  /\ retry = [r \in TwoRuns |-> 0]
  /\ previous_output = [r \in TwoRuns |-> <<>>]
  /\ result = [r \in TwoRuns |-> "none"]
  /\ calls = [r \in TwoRuns |-> <<>>]
  /\ events = [r \in TwoRuns |-> {}]
  /\ seen = [r \in TwoRuns |-> NoReply]

SpecRuns == InitRuns /\ [][Next]_vars

\* ------------------------------------------------------------------------
\* Vocabulary of the properties
\* ------------------------------------------------------------------------
\* execute has exited: it returned, or an exception left it
Exited(r) == pc[r] \in {"done", "raised"}

\* the entries of a log that belong to the step of the given step order
EntriesOf(log, order) == SelectSeq(log, LAMBDA e : e.step = order)

HasPassing(log, order) == \E i \in 1..Len(log) : log[i].step = order /\ log[i].passed

\* the step made every allowed attempt and none passed
Exhausted(log, order) ==
  /\ {log[i].retries : i \in {j \in 1..Len(log) : log[j].step = order}} = 0..max_retries
  /\ ~HasPassing(log, order)

StoreEvents == {"store_running", "store_save", "store_save_except", "store_failed", "store_completed", "store_except"}

IsGatewayErrorText(t) ==
  MatchAt(t, ApiErrorHead, 1) \/ MatchAt(t, TimeoutHead, 1) \/ MatchAt(t, ConnectionHead, 1)

\* ------------------------------------------------------------------------
\* Properties
\* ------------------------------------------------------------------------

\* C1 (as claimed): once a step has made its 3 attempts without a passing one
\* and execute has exited, the persisted status is 'failed', execute returned
\* false, and neither the in-memory nor the persisted log holds an entry of a
\* later step.  Fails when the write of 'failed' raises and the write of the
\* except clause raises too (C4).
C1_FailFast ==
  \A r \in RunIds : \A k \in 1..Len(steps[r]) :
    (Exited(r) /\ Exhausted(logs[r], steps[r][k].step_order)) =>
      /\ db[r].status = "failed"
      /\ result[r] = "false"
      /\ \A j \in (k + 1)..Len(steps[r]) :
           EntriesOf(logs[r], steps[r][j].step_order) = <<>> /\ EntriesOf(db[r].logs, steps[r][j].step_order) = <<>>

\* C2 (as claimed): in the persisted log the entries of every step carry the
\* retry indices 0, 1, ..., n in this order, none repeated or skipped, with
\* n <= 2.  Fails when _save_logs of line 97 raises: the except clause logs a
\* second entry with the same retry index.
C2_RetryIndices ==
  \A r \in RunIds : \A k \in 1..Len(steps[r]) :
    LET es == EntriesOf(db[r].logs, steps[r][k].step_order)
    IN Len(es) <= max_retries + 1 /\ \A i \in 1..Len(es) : es[i].retries = i - 1

\* C3 (as claimed): an attempt whose model call failed is logged with
\* passed = false, and the text of a failed call is never the previous output
\* of a later step.  Fails because generate_text turns the failure into a
\* response text that is validated like any other.
C3_GatewayFailureFails ==
  \A r \in RunIds :
    /\ \A c \in 1..Len(calls[r]) : \A i \in 1..Len(logs[r]) :
         (calls[r][c].kind # "ok" /\ logs[r][i].step = calls[r][c].step /\ logs[r][i].retries = calls[r][c].retries)
           => ~logs[r][i].passed
    /\ ~IsGatewayErrorText(previous_output[r])

\* C4 (as claimed): execute never raises to its caller, and when a store call
\* of the run raised and execute has exited the persisted status is 'failed'.
\* Fails when the write of the except clause (line 52) raises as well.
C4_StoreErrorsHandled ==
  \A r \in RunIds :
    /\ pc[r] # "raised"
    /\ (Exited(r) /\ events[r] \cap StoreEvents # {}) => db[r].status = "failed"

\* C5 (as claimed): when the lookup inside execute raised and execute has
\* exited, the persisted status is 'failed' with an empty log, no attempt and
\* no model call was made, and execute returned false.  Fails when the write
\* of the except clause raises (C4).
C5_LookupFailure ==
  \A r \in RunIds :
    (Exited(r) /\ "lookup" \in events[r]) =>
      /\ db[r].status = "failed" /\ db[r].logs = <<>>
      /\ logs[r] = <<>> /\ calls[r] = <<>>
      /\ result[r] = "false"

\* C6 (as claimed): for a workflow with zero steps, once execute has exited
\* the persisted status is 'failed' with an empty log, no model call was made
\* and execute returned false.  Fails when a status write and the write of
\* the except clause both raise (C4).
C6_ZeroSteps ==
  \A r \in RunIds :
    (Exited(r) /\ Len(workflow) = 0) =>
      /\ db[r].status = "failed" /\ db[r].logs = <<>>
      /\ calls[r] = <<>>
      /\ result[r] = "false"
\* The persisted row of every run changes only along `moves`; 'running' is
\* first persisted with an empty log; a model call is made only while the
\* persisted status is 'running'; a write that follows a new log entry carries
\* 'running'; once 'completed' or 'failed' is persisted the row never changes.
StatusDiscipline(moves) ==
  \A r \in RunIds :
    /\ db'[r] # db[r] => <<db[r].status, db'[r].status>> \in moves
    /\ (db[r].status = "pending" /\ db'[r].status = "running") => db'[r].logs = <<>>
    /\ calls'[r] # calls[r] => db[r].status = "running"
    /\ (logs'[r] # logs[r] /\ db'[r] # db[r]) => db'[r].status = "running"
    /\ db[r].status \in {"completed", "failed"} => db'[r] = db[r]

ChainMoves ==
  {<<"absent", "pending">>, <<"pending", "running">>, <<"running", "running">>,
   <<"running", "completed">>, <<"running", "failed">>}

\* C7 (as claimed): the persisted status only moves pending -> running ->
\* completed or failed, with the discipline above.  Fails when the write of
\* 'running' (line 21) raises and the except clause persists 'failed': the
\* status goes from 'pending' to 'failed'.
C7_StatusChain == [][StatusDiscipline(ChainMoves)]_vars

\* C7 (amended): the persisted status only moves forward along pending ->
\* running -> completed or failed, or from 'pending' straight to 'failed'
\* when the write of 'running' raised; 'running' is persisted with an empty
\* log before the first attempt of any step, every per-attempt write carries
\* 'running', and once 'completed' or 'failed' is persisted no later write
\* changes the status or the log.
C7_StatusMoves == [][StatusDiscipline(ChainMoves \cup {<<"pending", "failed">>})]_vars

\* the status went from 'pending' straight to 'failed'
C7_Witness == \E r \in RunIds : db[r].status = "failed" /\ "store_running" \in events[r]

AllStepsPassed(r) == \A i \in 1..Len(workflow) : HasPassing(db[r].logs, workflow[i].step_order)

C9_PreviousOutput ==
  \A r \in RunIds :
    pc[r] = "step" =>
      IF cur[r] = 1 THEN previous_output[r] = <<>>
      ELSE LET es == EntriesOf(logs[r], steps[r][cur[r] - 1].step_order)
           IN /\ Len(es) > 0
              /\ es[Len(es)].passed
              /\ previous_output[r] = es[Len(es)].response

\* the second step was handed a non-empty output of a first step that had
\* failed an attempt before it passed
C9_Witness ==
  \E r \in RunIds :
    /\ pc[r] = "step" /\ cur[r] = 2 /\ previous_output[r] # <<>>
    /\ Len(logs[r]) >= 2 /\ ~logs[r][1].passed
\* The workflow has two steps, the first without a completion rule, the
\* second with the placeholder in its prompt
CtxWorkflow ==
  /\ Len(workflow) = 2
  /\ SortByOrder(workflow)[1].completion_rule = NoRule
  /\ Contains(SortByOrder(workflow)[2].prompt, PLACEHOLDER)

\* The response of step 1 that is handed to step 2: that of its latest entry
FirstResponse(log) ==
  LET es == EntriesOf(log, SortByOrder(workflow)[1].step_order) IN es[Len(es)].response

IsErrorEntry(e) == e.validation_reasoning.fmt = "Execution error: {e}"

\* C10 (as claimed): in such a workflow, for every response of step 1 and
\* every strategy tag of step 2, every prompt logged for step 2 contains the
\* (transformed) response of step 1 and no literal placeholder.  Fails for an
\* empty response, for an unset strategy, for a response that itself holds
\* the token, and for the entries of the except clause.
C10_PlaceholderResolved ==
  \A r \in RunIds :
    CtxWorkflow =>
      \A i \in 1..Len(logs[r]) :
        LET second == SortByOrder(workflow)[2] IN
        logs[r][i].step = second.step_order =>
          /\ Contains(logs[r][i].prompt, ContextOf(FirstResponse(logs[r]), second.context_strategy))
          /\ ~Contains(logs[r][i].prompt, PLACEHOLDER)

\* C10 (amended): in such a workflow, an entry that the try body logs for
\* step 2 has the template unchanged when the response of step 1 is empty or
\* the strategy of step 2 is unset; otherwise its prompt contains the
\* transformed response of step 1, and no literal placeholder unless that
\* response holds one.  An entry that the except clause logs for step 2
\* always has the unresolved template.
C10_ResolvedWhenSubstituted ==
  \A r \in RunIds :
    CtxWorkflow =>
      \A i \in 1..Len(logs[r]) :
        LET second == SortByOrder(workflow)[2]
            e == logs[r][i]
            resp == FirstResponse(logs[r])
        IN e.step = second.step_order =>
             IF IsErrorEntry(e) \/ resp = <<>> \/ second.context_strategy = None
             THEN e.prompt = second.prompt
             ELSE /\ Contains(e.prompt, ContextOf(resp, second.context_strategy))
                  /\ ~Contains(resp, PLACEHOLDER) => ~Contains(e.prompt, PLACEHOLDER)

\* step 2 with strategy 'auto' logged a prompt holding the first AUTO_KEEP
\* characters of a long response of step 1 and the ellipsis
C10_Witness ==
  \E r \in RunIds :
    /\ CtxWorkflow
    /\ \E i \in 1..Len(logs[r]) :
         /\ logs[r][i].step = SortByOrder(workflow)[2].step_order
         /\ ~IsErrorEntry(logs[r][i])
         /\ SortByOrder(workflow)[2].context_strategy = "auto"
         /\ Len(FirstResponse(logs[r])) > AUTO_LIMIT
         /\ logs[r][i].prompt = <<"R","e",":"," ">> \o Prefix(FirstResponse(logs[r]), AUTO_KEEP) \o ELLIPSIS

\* the log `new` is the log `old` with entries appended
Extends(new, old) == Len(new) >= Len(old) /\ SubSeq(new, 1, Len(old)) = old

\* C11 (as claimed): a passing entry of a step is the last entry of that step
\* in the log, so a step has at most one passing entry.  Fails when
\* _save_logs of line 97 raises after a passing attempt: the except clause
\* logs an error entry and, while retries remain, the step is attempted again.
C11_PassingEntryIsLast ==
  \A r \in RunIds : \A k \in 1..Len(steps[r]) :
    LET es == EntriesOf(logs[r], steps[r][k].step_order)
    IN \A i \in 1..Len(es) : es[i].passed => i = Len(es)

\* C12 (as claimed): every write to the store carries the whole in-memory
\* log; a write that follows an attempt extends the persisted log by exactly
\* one entry and changes no earlier entry; the log persisted with a terminal
\* status is the in-memory log.  Fails when _save_logs of line 97 raises: the
\* write of the except clause then extends the persisted log by two entries.
C12_OneEntryPerWrite ==
  [][\A r \in RunIds :
       db'[r] # db[r] =>
         /\ db'[r].logs = logs'[r]
         /\ Extends(db'[r].logs, db[r].logs)
         /\ calls'[r] # calls[r] => Len(db'[r].logs) = Len(db[r].logs) + 1]_vars

\* The previous output that the step at position k of the sorted list is
\* handed: the response of the latest entry of the step before it
HandedTo(r, k) ==
  IF k = 1 THEN <<>>
  ELSE LET es == EntriesOf(logs[r], steps[r][k - 1].step_order) IN es[Len(es)].response

\* C13 (as claimed): every log entry, the entry of an attempt that raised
\* included, has the prompt the context injector produced for the attempt and
\* the resolved model.  Fails for the entries of the except clause, which
\* record the step's template and the step's own model (lines 108 and 111).
C13_ResolvedValuesLogged ==
  \A r \in RunIds : \A k \in 1..Len(steps[r]) : \A i \in 1..Len(logs[r]) :
    logs[r][i].step = steps[r][k].step_order =>
      /\ logs[r][i].prompt = _inject_context(steps[r][k].prompt, HandedTo(r, k), steps[r][k].context_strategy)
      /\ logs[r][i].model_used = validate_model(steps[r][k].model)

\* the step row of the sorted list of run r that has the given step order
StepOf(r, order) == CHOOSE st \in {steps[r][k] : k \in 1..Len(steps[r])} : st.step_order = order

\* C14 (as claimed): a creation request whose step names a model outside the
\* allowlist is not rejected, and every model call of a run is made with a
\* model of the allowlist, the default one when the step's model is unset or
\* outside the allowlist.  Fails at creation: create_workflow_endpoint
\* answers 400 for such a step (lines 38-42).
C14_OutsideAllowlistDowngraded ==
  /\ stage # "http400"
  /\ \A r \in RunIds : \A c \in 1..Len(calls[r]) :
       /\ calls[r][c].model \in SUPPORTED_MODELS
       /\ StepOf(r, calls[r][c].step).model \notin SUPPORTED_MODELS => calls[r][c].model = DEFAULT_MODEL

\* C15 (as claimed): the validator never raises; for a completion rule that is
\* a JSON document but no object the attempt is logged by the try body with
\* passed = false.  Fails: json.loads gives a value without .get, the
\* AttributeError is no json.JSONDecodeError and leaves the validator.
C15_ValidatorNeverRaises ==
  \A r \in RunIds :
    /\ "validator" \notin events[r]
    /\ \A i \in 1..Len(logs[r]) :
         StepOf(r, logs[r][i].step).completion_rule.form = "scalar" =>
           ~logs[r][i].passed /\ logs[r][i].validation_reasoning.fmt # "Execution error: {e}"

\* C16 (as claimed): for a structured rule without the field of its mode
\* (type 'simple' without 'rule', type 'judge' without 'prompt') every attempt
\* is logged with passed = false.  Fails for type 'simple': _validate_simple
\* passes on an empty rule (lines 193-194).
C16_MissingFieldFails ==
  \A r \in RunIds : \A i \in 1..Len(logs[r]) :
    LET rule == StepOf(r, logs[r][i].step).completion_rule
    IN (rule.form = "object" /\ rule.text = <<>>) => ~logs[r][i].passed

\* C17 (as claimed): when the judge request of an attempt gave no parseable
\* judgment (it failed, or its reply is no JSON object with 'passed' and
\* 'reasoning'), the attempt is logged with passed = true and the reasoning
\* of judge unavailability.  Fails for a reply that is no JSON or lacks a
\* field: lines 136-138 take passed from whether the text holds 'true' or
\* 'pass' and the reasoning from the text.
C17_UnparseablePasses ==
  \A r \in RunIds : \A c \in 1..Len(calls[r]) : \A i \in 1..Len(logs[r]) :
    (/\ calls[r][c].judge \in {"invalid", "partial", "scalar", "status", "exception"}
     /\ logs[r][i].step = calls[r][c].step /\ logs[r][i].retries = calls[r][c].retries
     /\ ~IsErrorEntry(logs[r][i]))
      => logs[r][i].passed /\ logs[r][i].validation_reasoning.arg = JudgeUnavailableText

\* run r takes the step: its request handler or its execute task moves
Acts(r) == pc'[r] # pc[r] \/ calls'[r] # calls[r]

\* nothing of run r changes in the step
RunUnchanged(r) ==
  /\ db'[r] = db[r] /\ logs'[r] = logs[r] /\ steps'[r] = steps[r] /\ cur'[r] = cur[r]
  /\ retry'[r] = retry[r] /\ previous_output'[r] = previous_output[r] /\ result'[r] = result[r]
  /\ calls'[r] = calls[r] /\ events'[r] = events[r] /\ pc'[r] = pc[r]

\* every entry of the log was made by an attempt of run r
OwnEntries(r, log) ==
  \A i \in 1..Len(log) : \E c \in 1..Len(calls[r]) :
    calls[r][c].step = log[i].step /\ calls[r][c].retries = log[i].retries

\* C18: with two runs interleaved, a step of one run changes nothing of the
\* other run (its in-memory state, its persisted row, what it returned), the
\* in-memory and the persisted log of a run hold only entries of attempts
\* that run made, and the persisted log of a run is a prefix of its
\* in-memory log.
C18_RunsDoNotInterfere ==
  [][/\ \A r \in DOMAIN pc : Acts(r) \/ RunUnchanged(r)
     /\ \A r1, r2 \in DOMAIN pc : (Acts(r1) /\ Acts(r2)) => r1 = r2
     /\ \A r \in DOMAIN pc : OwnEntries(r, logs[r]) /\ OwnEntries(r, db[r].logs) /\ Extends(logs[r], db[r].logs)]_vars

\* both runs have finished, one completed and one failed, each with its own log
C18_Witness ==
  /\ DOMAIN pc = TwoRuns
  /\ pc["run1"] = "done" /\ pc["run2"] = "done"
  /\ db["run1"].status = "completed" /\ db["run2"].status = "failed"
  /\ Len(db["run1"].logs) = 1 /\ Len(db["run2"].logs) = max_retries + 1

\* C19 (as claimed): a request answered 'not found' creates no run record
\* and starts no execution, and every other handled request has created the
\* run record.  Fails when create_run raises: the request is answered 500
\* and no record exists although the workflow does.
C19_RecordUnlessNotFound ==
  \A r \in RunIds :
    /\ pc[r] = "http404" => (db[r].status = "absent" /\ calls[r] = <<>>)
    /\ pc[r] \notin {"new", "http404"} => db[r].status # "absent"

\* C19 (amended): a run request for a workflow that does not exist is
\* answered 'not found'; a request answered 'not found' or, when create_run
\* raises, answered with a server error creates no run record and starts no
\* execution, ever; when the lookup and create_run succeed exactly one record
\* with status 'pending' and an empty log is created and one execution is
\* scheduled for it, which starts once.
C19_RunRequestOutcomes ==
  [][\A r \in RunIds :
       /\ (pc[r] = "new" /\ pc'[r] # "new") =>
            /\ pc'[r] \in {"http404", "http500", "scheduled"}
            /\ ~WorkflowExists => pc'[r] = "http404"
            /\ db[r].status = "absent"
            /\ IF pc'[r] = "scheduled" THEN db'[r] = [status |-> "pending", logs |-> <<>>] ELSE db'[r] = db[r]
       /\ pc[r] \in {"http404", "http500"} => (RunUnchanged(r) /\ db[r].status = "absent")
       /\ pc'[r] = "scheduled" => pc[r] \in {"new", "scheduled"}
       /\ db[r].status # "absent" => db'[r].status \notin {"absent", "pending"} \/ db'[r] = db[r]]_vars

\* the workflow exists, create_run raised, the request was answered 500
C19_Witness == \E r \in RunIds : pc[r] = "http500" /\ WorkflowExists /\ db[r].status = "absent"

\* C20: the context injector returns a template without the placeholder
\* unchanged, for every previous output and every strategy: for the step in
\* execution and any previous output the model may have produced, and in
\* every entry the try body logged.
C20_NoPlaceholderNoChange ==
  \A r \in RunIds :
    /\ pc[r] = "step" =>
         LET template == steps[r][cur[r]].prompt IN
         ~Contains(template, PLACEHOLDER) =>
           \A x \in gateway \cup {previous_output[r]}, s \in CtxStrategies \cup {steps[r][cur[r]].context_strategy} :
             _inject_context(template, x, s) = template
    /\ \A i \in 1..Len(logs[r]) :
         (~IsErrorEntry(logs[r][i]) /\ ~Contains(StepOf(r, logs[r][i].step).prompt, PLACEHOLDER))
           => logs[r][i].prompt = StepOf(r, logs[r][i].step).prompt

\* a step whose template has no placeholder was run with a long previous
\* output under 'summary' and logged its template
C20_Witness ==
  \E r \in RunIds : \E i \in 1..Len(logs[r]) :
    /\ logs[r][i].step = 3 /\ ~IsErrorEntry(logs[r][i])
    /\ StepOf(r, 3).prompt = PromptPlain /\ StepOf(r, 3).context_strategy = "summary"
    /\ Len(HandedTo(r, 2)) > SUMMARY_LIMIT
    /\ logs[r][i].prompt = PromptPlain

\* the lines of a text that hold a bullet marker or begin with '-' after trimming
MarkedLines(x) == SelectLines(split(x))

\* C21 (as claimed): under 'extract' the context is the text from the first
\* '{' to the last '}' when the previous output holds both; otherwise its
\* lines that hold a bullet marker or begin with '-' after trimming, newline
\* joined, when there is such a line; otherwise the whole previous output.
\* Holds of the previous output handed to a step of strategy 'extract' and of
\* every prompt the try body logged for such a step.
\* Fails for a text with a '-' inside a line and no marked line: line 144
\* tests for '-' anywhere, line 146 keeps no line, the context is empty.
C21_ExtractFallsBackToFull ==
  LET Claimed(x) == IF HasChar(x, "{") /\ HasChar(x, "}") THEN SubSeq(x, find(x, "{"), rfind(x, "}"))
                    ELSE IF MarkedLines(x) # <<>> THEN join(MarkedLines(x))
                    ELSE x
  IN /\ \A r \in RunIds :
          (pc[r] = "step" /\ steps[r][cur[r]].context_strategy = "extract")
            => ContextOf(previous_output[r], "extract") = Claimed(previous_output[r])
     /\ \A r \in RunIds : \A k \in 2..Len(steps[r]) : \A i \in 1..Len(logs[r]) :
          (/\ logs[r][i].step = steps[r][k].step_order /\ ~IsErrorEntry(logs[r][i])
           /\ steps[r][k].context_strategy = "extract" /\ HandedTo(r, k) # <<>>)
            => logs[r][i].prompt = replace(steps[r][k].prompt, PLACEHOLDER, Claimed(HandedTo(r, k)))

META == {".", "^", "$", "*", "+", "?", "{", "}", "[", "]", "\\", "|", "(", ")"}

\* the rule has no regular-expression metacharacter
IsLiteral(rule) == \A k \in 1..Len(rule) : rule[k] \notin META

\* the rule occurs in the response, ignoring case
Occurs(rule, response) == Contains(lower(response), lower(rule))

\* the rule text of a step that is validated in Simple mode
IsSimpleRule(rule) == rule.form = "plain" \/ (rule.form = "object" /\ rule.type = "simple")

\* C23: for a Simple-mode rule without metacharacters, and for one that is
\* no valid pattern, validation passes exactly when the rule occurs in the
\* response ignoring case: of every content the model may answer the step in
\* execution with, and of every attempt the try body logged.
C23_SimpleIsContainment ==
  \A r \in RunIds :
    /\ pc[r] = "step" =>
         LET rule == steps[r][cur[r]].completion_rule IN
         (IsSimpleRule(rule) /\ rule.text # <<>> /\ (IsLiteral(rule.text) \/ re_error(rule.text))) =>
           \A x \in gateway : _validate_simple(x, rule.text).passed <=> Occurs(rule.text, x)
    /\ \A i \in 1..Len(logs[r]) :
         LET rule == StepOf(r, logs[r][i].step).completion_rule IN
         (/\ ~IsErrorEntry(logs[r][i]) /\ IsSimpleRule(rule) /\ rule.text # <<>>
          /\ IsLiteral(rule.text) \/ re_error(rule.text))
           => (logs[r][i].passed <=> Occurs(rule.text, logs[r][i].response))

\* a rule that does not compile failed on 'goodbye' and then passed on a
\* response that holds it in another case, as a substring
C23_Witness ==
  \E r \in RunIds : \E i, j \in 1..Len(logs[r]) :
    /\ StepOf(r, logs[r][i].step).completion_rule.text = RuleOpen
    /\ logs[r][i].response = RespBye /\ ~logs[r][i].passed
    /\ logs[r][j].response = RespParen /\ logs[r][j].passed
    /\ logs[r][j].validation_reasoning.fmt = "Substring '{rule}' found"

\* C28: a completion rule that is no JSON document is validated as Simple
\* mode with the whole string as the rule: the validator gives the verdict of
\* _validate_simple for every content the model may answer the step in
\* execution with, every attempt the try body logged carries that verdict,
\* none is rejected as an invalid rule format, and the validator does not
\* raise.
C28_PlainRuleIsSimple ==
  \A r \in RunIds :
    /\ pc[r] = "step" =>
         LET rule == steps[r][cur[r]].completion_rule IN
         rule.form = "plain" =>
           \A x \in gateway : _validate_response_intelligent(x, rule, JudgeDefault) = _validate_simple(x, rule.text)
    /\ \A i \in 1..Len(logs[r]) :
         LET rule == StepOf(r, logs[r][i].step).completion_rule
             e == logs[r][i]
         IN rule.form = "plain" =>
              /\ "validator" \notin events[r]
              /\ ~IsErrorEntry(e) =>
                   /\ e.passed = _validate_simple(e.response, rule.text).passed
                   /\ e.validation_reasoning = _validate_simple(e.response, rule.text).reasoning
                   /\ e.validation_reasoning.fmt # "Invalid completion rule format"

\* the stored rule 'Hello', no JSON document, passed on 'hello world' as a
\* pattern after failing on 'goodbye'
C28_Witness ==
  \E r \in RunIds : \E i, j \in 1..Len(logs[r]) :
    /\ StepOf(r, logs[r][i].step).completion_rule = CompletionRule(RuleHello)
    /\ CompletionRule(RuleHello).form = "plain"
    /\ logs[r][i].response = RespBye /\ ~logs[r][i].passed
    /\ logs[r][j].response = RespHello /\ logs[r][j].passed
    /\ logs[r][j].validation_reasoning = [fmt |-> "Regex pattern '{rule}' matched", arg |-> RuleHello]

\* the data is of the JSON type the schema declares, every declared property
\* that is present fits its sub-schema, and a string is within its bounds
RECURSIVE FitsSchema(_, _)
FitsSchema(data, schema) ==
  CASE schema.type = "object" ->
         /\ data.t = "dict"
         /\ \A prop \in DOMAIN schema.properties :
              prop \in DOMAIN data.fields => FitsSchema(data.fields[prop], schema.properties[prop])
    [] schema.type = "string" ->
         /\ data.t = "str"
         /\ SchemaGet(schema, "minLength", 0) <= Len(data.v)
         /\ "maxLength" \in DOMAIN schema => Len(data.v) <= schema.maxLength
    [] schema.type = "number" -> data.t = "number"
    [] schema.type = "array" -> data.t = "list"
    [] OTHER -> FALSE

\* C24 (as claimed): against an object schema the parsed data passes exactly
\* when it is an object and every declared property that is present is of
\* the declared type and fits its sub-schema, at every nesting level; an
\* absent property, required or not, never fails the check.  Of every attempt
\* of a step of type 'json' whose response holds a JSON document.  Fails for
\* a boolean where the schema declares a number: line 246 tests
\* isinstance(data, (int, float)) and bool is a subclass of int.
C24_LenientPresenceStrictType ==
  \A r \in RunIds : \A i \in 1..Len(logs[r]) :
    LET rule == StepOf(r, logs[r][i].step).completion_rule
        response == logs[r][i].response
        data == json_document(JsonSpan(response))
    IN (/\ ~IsErrorEntry(logs[r][i]) /\ rule.form = "object" /\ rule.type = "json"
        /\ HasChar(response, "{") /\ HasChar(response, "}") /\ data # JInvalid)
         => (logs[r][i].passed <=> FitsSchema(data, rule.schema))

C26_BoundedAndTerminal ==
  \A r \in RunIds :
    /\ \A k \in 1..Len(steps[r]) :
         Cardinality({c \in 1..Len(calls[r]) : calls[r][c].step = steps[r][k].step_order}) <= max_retries + 1
    /\ Len(calls[r]) <= (max_retries + 1) * Len(steps[r])
    /\ Len(logs[r]) <= (max_retries + 1) * Len(steps[r])
    /\ Exited(r) => db[r].status \in {"completed", "failed"}

\* C27: when the previous output is empty or the strategy of the step is
\* unset the context injector returns the template unchanged, a placeholder
\* in it included: for the step in execution, whatever the strategy when the
\* previous output is empty and whatever the model may have answered when
\* the strategy is unset; the first step is handed the empty output; and
\* every entry logged for the first step, for a step that follows an empty
\* passing response, or for a step with the strategy unset has the template
\* as its prompt.
C27_EmptyOrUnsetLeavesTemplate ==
  \A r \in RunIds :
    /\ pc[r] = "step" =>
         LET st == steps[r][cur[r]] IN
         /\ cur[r] = 1 => previous_output[r] = <<>>
         /\ \A s \in CtxStrategies \cup {st.context_strategy} : _inject_context(st.prompt, <<>>, s) = st.prompt
         /\ \A x \in gateway \cup {previous_output[r]} : _inject_context(st.prompt, x, None) = st.prompt
    /\ \A k \in 1..Len(steps[r]) : \A i \in 1..Len(logs[r]) :
         (/\ logs[r][i].step = steps[r][k].step_order
          /\ k = 1 \/ HandedTo(r, k) = <<>> \/ steps[r][k].context_strategy = None)
           => logs[r][i].prompt = steps[r][k].prompt

\* both steps have the placeholder in their template; the first passed with
\* the empty response, and the second, with a strategy set, logged its
\* template with the placeholder in it
C27_Witness ==
  \E r \in RunIds :
    /\ Len(steps[r]) = 2 /\ Len(logs[r]) = 2
    /\ logs[r][1].step = steps[r][1].step_order /\ logs[r][1].passed
    /\ logs[r][1].response = <<>> /\ logs[r][1].prompt = PromptCtx
    /\ logs[r][2].step = steps[r][2].step_order /\ ~IsErrorEntry(logs[r][2])
    /\ steps[r][2].context_strategy = "full"
    /\ logs[r][2].prompt = PromptCtx /\ Contains(logs[r][2].prompt, PLACEHOLDER)

\* all the steps of the stored workflow, at least one, have no completion rule
NoRuleWorkflow == Len(workflow) >= 1 /\ \A k \in 1..Len(workflow) : workflow[k].completion_rule = NoRule

\* C29 (as claimed): a step without a completion rule contributes exactly
\* one log entry, with passed = true and retry index 0, whatever the
\* response; a run that fetched the steps of a workflow whose steps all have
\* no completion rule ends 'completed' with one entry per step.  Fails when
\* _save_logs of line 97 raises after the passing entry was appended: the
\* except clause logs a failing entry for the same attempt and the step is
\* attempted again (C2).
C29_NoRulePassesFirstAttempt ==
  \A r \in RunIds :
    /\ \A k \in 1..Len(steps[r]) :
         steps[r][k].completion_rule = NoRule =>
           LET es == EntriesOf(logs[r], steps[r][k].step_order)
           IN Len(es) <= 1 /\ \A i \in 1..Len(es) : es[i].passed /\ es[i].retries = 0
    /\ (NoRuleWorkflow /\ Exited(r) /\ steps[r] # <<>>) =>
         /\ db[r].status = "completed"
         /\ Len(db[r].logs) = Len(workflow)

\* C30 (as claimed): the attempts of a step are all built from the same
\* previous output, so all the entries of a step in the log carry the same
\* prompt.  Fails when _save_logs of line 97 raises: the try body has logged
\* the resolved prompt and the except clause logs the template (line 108,
\* C13) for the same attempt.
C30_RetriesLogSamePrompt ==
  \A r \in RunIds : \A i, j \in 1..Len(logs[r]) :
    logs[r][i].step = logs[r][j].step => logs[r][i].prompt = logs[r][j].prompt

\* C31 (as claimed): the run that poll_run returns to the caller has, for
\* every entry of the persisted log, an entry that carries the validation
\* reasoning the Step Executor stored for the attempt.  Fails for every
\* entry: the schema LogEntry declares no field validation_reasoning, so
\* LogEntry(**log_data) of get_run_endpoint drops it.
C31_ReasoningReturned ==
  \A r \in RunIds :
    seen[r].status \in {"completed", "failed"} =>
      /\ Len(seen[r].logs) = Len(db[r].logs)
      /\ \A i \in 1..Len(seen[r].logs) :
           /\ "validation_reasoning" \in DOMAIN seen[r].logs[i]
           /\ seen[r].logs[i].validation_reasoning = db[r].logs[i].validation_reasoning

====
